---- MODULE Spec2Model ----
(***************************************************************************)
(* Model of js-net (src/index.js): class Net, a wrapper around the fetch   *)
(* transport with a deadline timer, bounded retries and response           *)
(* normalisation.                                                          *)
(*                                                                         *)
(* JavaScript runs every callback to completion, so one action of the     *)
(* model is one task of the event loop together with the promise           *)
(* reactions it triggers: the caller entering fetch, the transport         *)
(* completing an attempt, the deadline timer firing, and the body read of  *)
(* a response completing.                                                  *)
(***************************************************************************)
EXTENDS Integers, Sequences, FiniteSets, TLC

\* Largest value of options.retries the model draws.
MaxRetries == 3

\* The calls that may be in flight at the same time.
CallIds == {1, 2}

(***************************************************************************)
(* JavaScript values.  A value is a record [t, v]: t is its type and v a   *)
(* rendering of it, so that truthiness and typeof can be decided.          *)
(***************************************************************************)
Undefined == [t |-> "undefined", v |-> ""]
Str(s) == [t |-> "string", v |-> s]
Obj(s) == [t |-> "object", v |-> s]

\* JavaScript truthiness of a value (used by `data &&`, `resp.data`, `||`).
Truthy(x) == x.t = "object" \/ (x.t = "string" /\ x.v # "")

\* a || b
OrElse(a, b) == IF Truthy(a) THEN a ELSE b

\* Status given to a call that obtained no response at all.
NoResponseStatus == 444
\* Status carried by the synthetic outcome of the deadline timer.
TimeoutStatus == 444
\* options.retries || 1
DefaultRetries == 1

TimeoutMessage == "Request timed out, please retry"
CommunicateMessage == "Could Not Communicate With Server"
DefaultErrorMessage == "Cannot complete operation"

(***************************************************************************)
(* Raw outcomes of the race: no response (fetchRetry returned undefined),  *)
(* the synthetic timeout object, or a transport response.  Only a          *)
(* transport response has a text() body reader.                            *)
(***************************************************************************)
NoResponse ==
    [kind |-> "none", status |-> 0, error |-> FALSE,
     message |-> Undefined, severity |-> Undefined]

TimeoutOutcome ==
    [kind |-> "timeout", status |-> TimeoutStatus, error |-> TRUE,
     message |-> Str(TimeoutMessage), severity |-> Str("error")]

HttpResponse(s) ==
    [kind |-> "http", status |-> s, error |-> FALSE,
     message |-> Undefined, severity |-> Undefined]

\* Statuses the transport may answer with.
Statuses == {200, 401, 500}

\* if (response) ...
HasResponse(response) == response.kind # "none"
\* if (response.text) ...
HasText(response) == response.kind = "http"

(***************************************************************************)
(* Response bodies and content types the transport may deliver.            *)
(***************************************************************************)
JsonType == "application/json; charset=utf-8"
TextType == "text/plain"
NoType == "undefined"

BodyOk == "{\"data\":{\"ok\":true}}"
BodyItems == "{\"data\":[1,2,3],\"count\":3}"
BodyError == "{\"error\":true}"
BodyDenied == "{\"error\":true,\"message\":\"Denied\"}"
BodyFeedback == "{\"error\":true,\"feedback\":{\"error\":\"Bad input\"}}"
BodyScalar == "{\"data\":\"done\",\"count\":1}"
BodyNull == "null"
BodyTruncated == "{\"data\":"
BodyHello == "hello"
BodyEmpty == ""

JsonBodies ==
    {BodyOk, BodyItems, BodyError, BodyDenied, BodyFeedback, BodyScalar,
     BodyNull, BodyTruncated, BodyHello, BodyEmpty}

\* What response.text() and response.headers.get('Content-Type') deliver.
Payloads ==
    [contentType : {JsonType}, text : JsonBodies]
    \cup [contentType : {TextType}, text : {BodyOk, BodyHello, BodyEmpty}]
    \cup [contentType : {NoType}, text : {BodyHello}]

NoPayload == [contentType |-> NoType, text |-> BodyEmpty]

\* contentType && contentType.indexOf('application/json') == 0
IsJsonType(contentType) ==
    /\ contentType # NoType
    /\ Len(contentType) >= Len("application/json")
    /\ SubSeq(contentType, 1, Len("application/json")) = "application/json"

(***************************************************************************)
(* The result envelope `resp`.  shape is what kind of JavaScript value     *)
(* resp is: parseResponse starts it as the object {url}, and JSON.parse    *)
(* may replace it by any JSON value.                                       *)
(***************************************************************************)
EmptyEnvelope ==
    [shape |-> "object", data |-> Undefined, error |-> FALSE,
     message |-> Undefined, severity |-> Undefined,
     feedbackError |-> Undefined, schema |-> FALSE, count |-> 0,
     response |-> NoResponse]

\* JSON.parse(data, Json.decode): ok is FALSE when it throws a SyntaxError.
JSONparse(text) ==
    CASE text = BodyOk ->
            [ok |-> TRUE, value |-> [EmptyEnvelope EXCEPT !.data = Obj("{ok:true}")]]
      [] text = BodyItems ->
            [ok |-> TRUE,
             value |-> [EmptyEnvelope EXCEPT !.data = Obj("[1,2,3]"), !.count = 3]]
      [] text = BodyError ->
            [ok |-> TRUE, value |-> [EmptyEnvelope EXCEPT !.error = TRUE]]
      [] text = BodyDenied ->
            [ok |-> TRUE,
             value |-> [EmptyEnvelope EXCEPT !.error = TRUE, !.message = Str("Denied")]]
      [] text = BodyFeedback ->
            [ok |-> TRUE,
             value |-> [EmptyEnvelope EXCEPT !.error = TRUE,
                                             !.feedbackError = Str("Bad input")]]
      [] text = BodyScalar ->
            [ok |-> TRUE,
             value |-> [EmptyEnvelope EXCEPT !.data = Str("done"), !.count = 1]]
      [] text = BodyNull ->
            [ok |-> TRUE, value |-> [EmptyEnvelope EXCEPT !.shape = "null"]]
      [] OTHER ->
            [ok |-> FALSE, value |-> EmptyEnvelope]

(***************************************************************************)
(* Per-call options.  A flag the code tests for truthiness is a BOOLEAN;   *)
(* feedback, throw and log are compared with `!== false`, so they keep     *)
(* the value "unset".  retries 0 stands for an unset or zero option.       *)
(***************************************************************************)
Options ==
    [clear : BOOLEAN, progress : BOOLEAN, nologout : BOOLEAN,
     noparse : BOOLEAN, raw : BOOLEAN,
     feedback : {"unset", "true", "false"},
     throw : {"unset", "false"},
     log : {"unset", "false"},
     retries : 0..MaxRetries]

DefaultOptions ==
    [clear |-> FALSE, progress |-> FALSE, nologout |-> FALSE,
     noparse |-> FALSE, raw |-> FALSE, feedback |-> "unset",
     throw |-> "unset", log |-> "unset", retries |-> 0]

(***************************************************************************)
(* parseResponse, lines 95-176.                                            *)
(***************************************************************************)

\* data && contentType && contentType.indexOf('application/json') == 0
\*      && !options.noparse
WantsParse(options, payload) ==
    /\ Truthy(Str(payload.text))
    /\ IsJsonType(payload.contentType)
    /\ ~options.noparse

\* Decode with the JSON branch lost: the text is always kept as the data.
Decode_keepsText(options, payload) ==
    [EmptyEnvelope EXCEPT !.data = Str(payload.text)]

\* Decode with a catch block that falls back to the text as the data.
Decode_fallsBackToText(options, payload) ==
    IF WantsParse(options, payload) /\ JSONparse(payload.text).ok
    THEN JSONparse(payload.text).value
    ELSE [EmptyEnvelope EXCEPT !.data = Str(payload.text)]

\* The envelope after the body has been read and decoded (lines 101-116).
Decode(options, payload) ==
    IF WantsParse(options, payload)
    THEN LET parsed == JSONparse(payload.text)
         IN  IF parsed.ok THEN parsed.value ELSE EmptyEnvelope
    ELSE [EmptyEnvelope EXCEPT !.data = Str(payload.text)]

\* Lines 96-120: [threw, resp, status].  threw: `resp.response = response`
\* raised a TypeError because JSON.parse had replaced resp by null.
ReadResponse(options, response, payload) ==
    IF HasResponse(response)
    THEN LET decoded == IF HasText(response)
                        THEN Decode(options, payload)
                        ELSE EmptyEnvelope
         IN  IF decoded.shape = "object"
             THEN [threw |-> FALSE, status |-> response.status,
                   resp |-> [decoded EXCEPT !.response = response]]
             ELSE [threw |-> TRUE, status |-> response.status, resp |-> decoded]
    ELSE [threw |-> FALSE, status |-> NoResponseStatus, resp |-> EmptyEnvelope]

\* if (status == 401) { if (options.nologout !== true) callback('logout') }
LogoutFires(options, status) == status = 401 /\ ~options.nologout

\* StatusCheck that exempts 401 only: a status of 200 is flagged too.
StatusCheck_flags200(status, resp) ==
    IF status # 401
    THEN [resp EXCEPT !.error = TRUE,
                      !.message = Str(CommunicateMessage),
                      !.severity = Str("error")]
    ELSE resp

\* StatusCheck without the 401 branch: every status but 200 is flagged.
StatusCheck_flags401(status, resp) ==
    IF status # 200
    THEN [resp EXCEPT !.error = TRUE,
                      !.message = Str(CommunicateMessage),
                      !.severity = Str("error")]
    ELSE resp

\* Lines 122-133: the envelope after the status check.
StatusCheck(status, resp) ==
    IF status # 401 /\ status # 200
    THEN [resp EXCEPT !.error = TRUE,
                      !.message = Str(CommunicateMessage),
                      !.severity = Str("error")]
    ELSE resp

\* FeedbackFires without the test of options.feedback.
FeedbackFires_ignoresOption(options, status, resp) ==
    status # 200 \/ resp.error

\* if (options.feedback !== false && (status != 200 || resp.error))
FeedbackFires(options, status, resp) ==
    options.feedback # "false" /\ (status # 200 \/ resp.error)

\* Lines 142-147: resp.message = resp.message || (resp.feedback || {}).error
ResolveMessage(options, resp) ==
    IF resp.error /\ options.log # "false"
    THEN [resp EXCEPT !.message = OrElse(resp.message, resp.feedbackError)]
    ELSE resp

\* if (resp.error && options.throw !== false)
Throws(options, resp) == resp.error /\ options.throw # "false"

\* if (status == 401) callback('login'), inside the throwing branch
LoginFires(options, status, resp) == Throws(options, resp) /\ status = 401

\* Notifications with the progress stop moved before the status check.
Notifications_stopFirst(options, status, resp) ==
    (IF options.progress THEN <<"stop">> ELSE <<>>)
    \o (IF status = 401 /\ ~options.nologout THEN <<"logout">> ELSE <<>>)
    \o (IF options.feedback # "false" /\ (status # 200 \/ resp.error)
        THEN <<"feedback">> ELSE <<>>)
    \o (IF resp.error /\ options.throw # "false" /\ status = 401
        THEN <<"login">> ELSE <<>>)

\* The notifications parseResponse fires after the status check, in the
\* order of lines 122-155.
Notifications(options, status, resp) ==
    (IF LogoutFires(options, status) THEN <<"logout">> ELSE <<>>)
    \o (IF FeedbackFires(options, status, resp) THEN <<"feedback">> ELSE <<>>)
    \o (IF options.progress THEN <<"stop">> ELSE <<>>)
    \o (IF LoginFires(options, status, resp) THEN <<"login">> ELSE <<>>)

\* Object.defineProperty(resp.data, ...) raises a TypeError when resp.data
\* is not an object (lines 161-174).
AnnotateThrows(resp) ==
    Truthy(resp.data) /\ (resp.schema \/ resp.count # 0) /\ resp.data.t # "object"

Pending ==
    [kind |-> "pending", error |-> "none", message |-> Undefined,
     returns |-> "none", data |-> Undefined, schema |-> FALSE, count |-> 0,
     status |-> 0, hasResp |-> FALSE, resp |-> EmptyEnvelope]

\* throw new NetError(resp.message || 'Cannot complete operation', resp)
ThrowNetError(status, resp) ==
    [Pending EXCEPT !.kind = "throw", !.error = "NetError",
                    !.message = OrElse(resp.message, Str(DefaultErrorMessage)),
                    !.status = status, !.hasResp = TRUE, !.resp = resp]

ThrowTypeError(status, resp, hasResp) ==
    [Pending EXCEPT !.kind = "throw", !.error = "TypeError",
                    !.status = status, !.hasResp = hasResp, !.resp = resp]

\* response.text() rejected: the rejection leaves parseResponse and fetch.
ThrowReadError(status) ==
    [Pending EXCEPT !.kind = "throw", !.error = "ReadError", !.status = status]

\* Lines 158-175: the value parseResponse returns.
ReturnValue(options, status, resp) ==
    IF options.raw
    THEN [Pending EXCEPT !.kind = "return", !.returns = "envelope",
                         !.status = status, !.hasResp = TRUE, !.resp = resp]
    ELSE IF AnnotateThrows(resp)
    THEN ThrowTypeError(status, resp, TRUE)
    ELSE [Pending EXCEPT !.kind = "return", !.returns = "data",
                         !.data = resp.data,
                         !.schema = (Truthy(resp.data) /\ resp.schema),
                         !.count = (IF Truthy(resp.data) THEN resp.count ELSE 0),
                         !.status = status, !.hasResp = TRUE, !.resp = resp]

\* parseResponse from the point the body is available: the notifications it
\* fires and how it ends.
ParseResponse(options, response, payload) ==
    LET read == ReadResponse(options, response, payload)
        checked == StatusCheck(read.status, read.resp)
        resp == ResolveMessage(options, checked)
    IN  IF read.threw
        THEN [notes |-> <<>>,
              outcome |-> ThrowTypeError(read.status, read.resp, FALSE)]
        ELSE [notes |-> Notifications(options, read.status, checked),
              outcome |-> IF Throws(options, resp)
                          THEN ThrowNetError(read.status, resp)
                          ELSE ReturnValue(options, read.status, resp)]

(***************************************************************************)
(* State.  Every variable is a function of the call, except the log of     *)
(* notifications, which the calls share through Net.notify.                *)
(***************************************************************************)
VARIABLES
    pc,             \* where fetch is: "idle", "race", "body", "done"
    options,        \* the options the call was made with
    state,          \* RequestState: [timeout, timeoutHandle]
    driver,         \* fetchRetry: its locals and the attempts it has made
    race,           \* the promise of Promise.race
    received,       \* what response.text() and the headers delivered
    outcome,        \* how fetch ended
    notifications,  \* <<call, reason>> in the order this.notify was called
    caller,         \* the facade called and the method of the caller's options
    notifier        \* the reasons on which the caller's notify throws

vars ==
    <<pc, options, state, driver, race, received, outcome, notifications,
      caller, notifier>>

\* let state = {url, timeout: null}; timeoutHandle is set by timeout().
NewState == [timeout |-> FALSE, timeoutHandle |-> "none"]

IdleDriver ==
    [status |-> "none", retries |-> 0, retry |-> 0, attempts |-> 0,
     failures |-> 0, response |-> NoResponse, late |-> 0]

NewRace == [settles |-> 0, by |-> "none", value |-> NoResponse]

\* The values this.notify is called with.
Reasons == {"clear", "start", "stop", "feedback", "logout", "login"}

\* options.method as the caller may give it.
Methods == {"unset", "GET", "PUT"}

NoCaller == [via |-> "none", before |-> "unset", after |-> "unset", sent |-> "unset"]

Init ==
    /\ pc = [c \in CallIds |-> "idle"]
    /\ options = [c \in CallIds |-> DefaultOptions]
    /\ state = [c \in CallIds |-> NewState]
    /\ driver = [c \in CallIds |-> IdleDriver]
    /\ race = [c \in CallIds |-> NewRace]
    /\ received = [c \in CallIds |-> NoPayload]
    /\ outcome = [c \in CallIds |-> Pending]
    /\ notifications = <<>>
    /\ caller = [c \in CallIds |-> NoCaller]
    /\ notifier = [c \in CallIds |-> {}]

(***************************************************************************)
(* callback, lines 52-60.                                                  *)
(***************************************************************************)

\* callback without its try/catch, called as a plain function: what
\* this.notify throws reaches the caller of callback.
CallbackEscapes_uncaught(reason, throwsOn) == reason \in throwsOn

\* Whether an exception of this.notify(reason) reaches the code that called
\* this.callback(reason): callback catches it, and being async it would
\* turn it into a rejected promise that nobody awaits.
CallbackEscapes(reason, throwsOn) == FALSE

\* this.callback(reason) for each of reasons in turn, this.notify throwing
\* on throwsOn: the reasons notify was called with, and whether an
\* exception escaped and cut the sequence short.
Deliver(reasons, throwsOn) ==
    LET bad == {i \in 1..Len(reasons) : CallbackEscapes(reasons[i], throwsOn)}
        last == IF bad = {} THEN Len(reasons)
                ELSE CHOOSE i \in bad : \A j \in bad : i <= j
    IN  [notes |-> SubSeq(reasons, 1, last), escaped |-> bad # {}]

\* An exception of this.notify leaving fetch.
ThrowNotifyError == [Pending EXCEPT !.kind = "throw", !.error = "NotifyError"]

\* this.notify(reason) is called for each reason, on behalf of call c.
Notify(c, reasons) ==
    notifications' = notifications \o [i \in 1..Len(reasons) |-> <<c, reasons[i]>>]

\* parseResponse ends for call c: its notifications, then its result.
Finish(c, end) ==
    LET del == Deliver(end.notes, notifier[c])
    IN  /\ pc' = [pc EXCEPT ![c] = "done"]
        /\ outcome' = [outcome EXCEPT ![c] =
                            IF del.escaped THEN ThrowNotifyError ELSE end.outcome]
        /\ Notify(c, del.notes)

(***************************************************************************)
(* fetchRetry, lines 209-243.                                              *)
(***************************************************************************)

\* InitialRetries that never reads options.retries.
InitialRetries_ignoresOption(o) == DefaultRetries

\* let retries = options.retries || 1
InitialRetries(o) == IF o.retries # 0 THEN o.retries ELSE DefaultRetries

\* LoopAgain with the comparison off by one: while (--retries >= 0).
LoopAgain_offByOne(retries) == retries - 1 >= 0

\* } while (--retries > 0)
LoopAgain(retries) == retries - 1 > 0

\* The synchronous start of fetchRetry: up to its first `await fetch()`.
StartDriver(o) ==
    [IdleDriver EXCEPT !.status = "attempting",
                       !.retries = InitialRetries(o),
                       !.attempts = 1]

\* DriverOnResponse that treats a status other than 200 as a failed attempt.
DriverOnResponse_retriesOnStatus(d, response, st) ==
    IF response.status # 200 /\ ~st.timeout /\ d.retries - 1 > 0
    THEN [d EXCEPT !.retry = @ + 1, !.retries = @ - 1, !.attempts = @ + 1,
                   !.response = response]
    ELSE [d EXCEPT !.status = "returned", !.response = response,
                   !.late = IF st.timeout THEN @ + 1 ELSE @]

\* fetchRetry after `await fetch(url, args)` gave a response: break, return.
DriverOnResponse(d, response, st) ==
    [d EXCEPT !.status = "returned", !.response = response,
              !.late = IF st.timeout THEN @ + 1 ELSE @]

\* DriverOnFailure without the test of state.timeout.
DriverOnFailure_ignoresDeadline(d, st) ==
    IF d.retries <= 0
    THEN [d EXCEPT !.status = "returned", !.failures = @ + 1]
    ELSE IF LoopAgain(d.retries)
    THEN [d EXCEPT !.retry = @ + 1, !.retries = @ - 1, !.failures = @ + 1,
                   !.attempts = @ + 1]
    ELSE [d EXCEPT !.status = "returned", !.retry = @ + 1, !.retries = @ - 1,
                   !.failures = @ + 1]

\* fetchRetry after an attempt threw, was rejected or gave no response
\* (lines 225-241).
DriverOnFailure(d, st) ==
    IF st.timeout
    THEN [d EXCEPT !.status = "returned", !.failures = @ + 1,
                   !.response = NoResponse, !.late = @ + 1]
    ELSE IF d.retries <= 0
    THEN [d EXCEPT !.status = "returned", !.failures = @ + 1]
    ELSE IF LoopAgain(d.retries)
    THEN [d EXCEPT !.retry = @ + 1, !.retries = @ - 1, !.failures = @ + 1,
                   !.attempts = @ + 1]
    ELSE [d EXCEPT !.status = "returned", !.retry = @ + 1, !.retries = @ - 1,
                   !.failures = @ + 1]

(***************************************************************************)
(* timeout, lines 192-204, and clearTimeout.                               *)
(***************************************************************************)

\* state.timeoutHandle = setTimeout(...)
SetTimer(st) == [st EXCEPT !.timeoutHandle = "pending"]

\* The timer's callback: state.timeout = true; resolve({...}).
TimerCallback(st) == [st EXCEPT !.timeout = TRUE, !.timeoutHandle = "fired"]

\* ClearTimeout left out: the handle stays as it is.
ClearTimeout_forgotten(st) == st

\* clearTimeout(state.timeoutHandle): cancels a pending timer, otherwise
\* does nothing.
ClearTimeout(st) ==
    IF st.timeoutHandle = "pending"
    THEN [st EXCEPT !.timeoutHandle = "cleared"]
    ELSE st

(***************************************************************************)
(* Promise.race, lines 86-89: a promise settles once; a later resolution   *)
(* is ignored.                                                             *)
(***************************************************************************)
\* RaceResolve as a promise that could be resolved again.
RaceResolve_resettles(r, by, value) ==
    [settles |-> r.settles + 1, by |-> by, value |-> value]

RaceResolve(r, by, value) ==
    IF r.settles = 0
    THEN [settles |-> 1, by |-> by, value |-> value]
    ELSE r

(***************************************************************************)
(* fetch, lines 62-93.                                                     *)
(***************************************************************************)

\* Lines 64-78: the notifications fetch fires before the request.
Opening(o) ==
    (IF o.clear THEN <<"clear">> ELSE <<>>)
    \o (IF o.progress THEN <<"start">> ELSE <<>>)

\* fetch after `await Promise.race(...)` resumed with response, the state
\* being st: clearTimeout, then parseResponse up to its first await or
\* to its end.
Resume(c, response, st) ==
    /\ state' = [state EXCEPT ![c] = ClearTimeout(st)]
    /\ IF HasText(response)
       THEN /\ pc' = [pc EXCEPT ![c] = "body"]
            /\ UNCHANGED <<outcome, notifications>>
       ELSE Finish(c, ParseResponse(options[c], response, NoPayload))

\* One of the two racing promises is fulfilled with value; fetch resumes
\* if that settles the race.
Settle(c, by, value, st) ==
    LET r == RaceResolve(race[c], by, value)
    IN  /\ race' = [race EXCEPT ![c] = r]
        /\ IF r.settles > race[c].settles
           THEN Resume(c, r.value, st)
           ELSE /\ state' = [state EXCEPT ![c] = st]
                /\ UNCHANGED <<pc, outcome, notifications>>

(***************************************************************************)
(* get and post, lines 178-187, and the method fetchRetry sends.           *)
(***************************************************************************)

\* options.method of the caller's object once the facade has run: get
\* works on a copy, post assigns to the object it was given.
MethodAfter(via, m) == IF via = "post" THEN "POST" ELSE m

\* options.method of the object the facade hands to fetch.
MethodPassed(via, m) ==
    CASE via = "get" -> "GET"
      [] via = "post" -> "POST"
      [] OTHER -> m

\* if (!args.method) args.method = 'POST', on fetchRetry's copy.
ArgsMethod(m) == IF m = "unset" THEN "POST" ELSE m

\* The caller calls the facade via(url, options), options having the fields
\* o and the method m, with a notify that throws on the reasons t:
\* everything up to `await Promise.race`.
Enter(c, via, m, t, o) ==
    /\ pc[c] = "idle"
    /\ options' = [options EXCEPT ![c] = o]
    /\ notifier' = [notifier EXCEPT ![c] = t]
    /\ caller' = [caller EXCEPT ![c] =
                    [via |-> via, before |-> m, after |-> MethodAfter(via, m),
                     sent |-> ArgsMethod(MethodPassed(via, m))]]
    /\ LET del == Deliver(Opening(o), t)
       IN  /\ Notify(c, del.notes)
           /\ IF del.escaped
              THEN /\ pc' = [pc EXCEPT ![c] = "done"]
                   /\ outcome' = [outcome EXCEPT ![c] = ThrowNotifyError]
                   /\ UNCHANGED <<driver, state, race>>
              ELSE /\ pc' = [pc EXCEPT ![c] = "race"]
                   /\ driver' = [driver EXCEPT ![c] = StartDriver(o)]
                   /\ state' = [state EXCEPT ![c] = SetTimer(NewState)]
                   /\ race' = [race EXCEPT ![c] = NewRace]
                   /\ UNCHANGED outcome
    /\ UNCHANGED received

\* fetch(url, o), no method given, with a notify that does not throw.
Fetch(c, o) == Enter(c, "fetch", "unset", {}, o)

\* fetch(url, options) with a method and a notify that may throw.
FetchWith(c, m, t, o) == Enter(c, "fetch", m, t, o)

\* get(url, options)
Get(c, m, t, o) == Enter(c, "get", m, t, o)

\* post(url, options)
Post(c, m, t, o) == Enter(c, "post", m, t, o)

\* The transport answers the pending attempt with a response of status s.
TransportRespond(c, s) ==
    /\ driver[c].status = "attempting"
    /\ LET d == DriverOnResponse(driver[c], HttpResponse(s), state[c])
       IN  /\ driver' = [driver EXCEPT ![c] = d]
           /\ IF d.status = "returned"
              THEN Settle(c, "driver", d.response, state[c])
              ELSE UNCHANGED <<pc, state, race, outcome, notifications>>
    /\ UNCHANGED <<options, received, caller, notifier>>

\* The pending attempt throws, is rejected, or yields no response.
TransportFail(c) ==
    /\ driver[c].status = "attempting"
    /\ LET d == DriverOnFailure(driver[c], state[c])
       IN  /\ driver' = [driver EXCEPT ![c] = d]
           /\ IF d.status = "returned"
              THEN Settle(c, "driver", d.response, state[c])
              ELSE UNCHANGED <<pc, state, race, outcome, notifications>>
    /\ UNCHANGED <<options, received, caller, notifier>>

\* The deadline timer fires.
TimerFire(c) ==
    /\ state[c].timeoutHandle = "pending"
    /\ Settle(c, "timer", TimeoutOutcome, TimerCallback(state[c]))
    /\ UNCHANGED <<options, driver, received, caller, notifier>>

\* `await response.text()` delivers the body: the rest of parseResponse.
BodyRead(c, payload) ==
    /\ pc[c] = "body"
    /\ Finish(c, ParseResponse(options[c], race[c].value, payload))
    /\ received' = [received EXCEPT ![c] = payload]
    /\ UNCHANGED <<options, state, driver, race, caller, notifier>>

\* `await response.text()` is rejected: parseResponse and fetch reject.
BodyFail(c) ==
    /\ pc[c] = "body"
    /\ pc' = [pc EXCEPT ![c] = "done"]
    /\ outcome' = [outcome EXCEPT ![c] = ThrowReadError(race[c].value.status)]
    /\ UNCHANGED <<options, state, driver, race, received, notifications,
                   caller, notifier>>

\* One caller, every combination of options.
Next ==
    \/ \E o \in Options : Fetch(1, o)
    \/ \E c \in CallIds, s \in Statuses : TransportRespond(c, s)
    \/ \E c \in CallIds : TransportFail(c)
    \/ \E c \in CallIds : TimerFire(c)
    \/ \E c \in CallIds, payload \in Payloads : BodyRead(c, payload)
    \/ \E c \in CallIds : BodyFail(c)

Spec == Init /\ [][Next]_vars

\* Two callers at once; clear, progress and nologout vary, the rest is default.
PairOptions ==
    {o \in Options :
        /\ ~o.noparse /\ ~o.raw
        /\ o.feedback = "unset" /\ o.throw = "unset" /\ o.log = "unset"
        /\ o.retries = 0}

NextPair ==
    \/ \E c \in CallIds, o \in PairOptions : Fetch(c, o)
    \/ \E c \in CallIds, s \in Statuses : TransportRespond(c, s)
    \/ \E c \in CallIds : TransportFail(c)
    \/ \E c \in CallIds : TimerFire(c)
    \/ \E c \in CallIds, payload \in Payloads : BodyRead(c, payload)
    \/ \E c \in CallIds : BodyFail(c)

SpecPair == Init /\ [][NextPair]_vars

\* One caller through each facade operation, with every method, and a
\* notify that throws on none, one or all of its reasons.
CallerOptions ==
    {o \in Options :
        /\ ~o.noparse /\ ~o.raw
        /\ o.feedback = "unset" /\ o.log = "unset"
        /\ o.retries = 0}

NotifierChoices == {{}, Reasons} \cup {{r} : r \in Reasons}

NextCaller ==
    \/ \E m \in Methods, t \in NotifierChoices, o \in CallerOptions :
            FetchWith(1, m, t, o)
    \/ \E m \in Methods, t \in NotifierChoices, o \in CallerOptions :
            Get(1, m, t, o)
    \/ \E m \in Methods, t \in NotifierChoices, o \in CallerOptions :
            Post(1, m, t, o)
    \/ \E c \in CallIds, s \in Statuses : TransportRespond(c, s)
    \/ \E c \in CallIds : TransportFail(c)
    \/ \E c \in CallIds : TimerFire(c)
    \/ \E c \in CallIds, payload \in Payloads : BodyRead(c, payload)
    \/ \E c \in CallIds : BodyFail(c)

SpecCaller == Init /\ [][NextCaller]_vars

(***************************************************************************)
(* Vocabulary of the properties.                                           *)
(***************************************************************************)

\* The number of transport attempts the retries option asks for.
RequestedAttempts(o) == IF o.retries = 0 THEN 1 ELSE o.retries

\* The positions of the log at which call c notified reason.
Fired(c, reason) ==
    {i \in 1..Len(notifications) : notifications[i] = <<c, reason>>}

\* The deadline fired while the race was open: it settled the call.
TimedOut(c) == pc[c] = "done" /\ race[c].by = "timer"

\* fetchRetry returned a response and the deadline had not fired.
DriverGotResponse(c) ==
    /\ driver[c].status = "returned"
    /\ driver[c].response.kind = "http"
    /\ driver[c].late = 0

\* fetchRetry gave up without a response and the deadline had not fired.
DriverExhausted(c) ==
    /\ driver[c].status = "returned"
    /\ driver[c].response.kind = "none"
    /\ driver[c].late = 0

(***************************************************************************)
(* C1: when the deadline timer fires before the transport produces a       *)
(* response, the outcome has status 444 and the message of the envelope,   *)
(* and of the error thrown under default options, is 'Request timed out,   *)
(* please retry', whatever the retries option.                             *)
(***************************************************************************)
C1_TimeoutMessage ==
    \A c \in CallIds :
        TimedOut(c) =>
            /\ outcome[c].status = 444
            /\ outcome[c].resp.message = Str("Request timed out, please retry")
            /\ options[c].throw = "unset" =>
                    /\ outcome[c].kind = "throw"
                    /\ outcome[c].message = Str("Request timed out, please retry")

(***************************************************************************)
(* C2: a call settles exactly once.  Once the race is settled its value    *)
(* never changes and fetch never resumes again; after the timer settled    *)
(* it, a later transport completion leaves the outcome as it is; after     *)
(* the retry driver settled it, the timer never fires and its outcome is   *)
(* never the one parseResponse sees.                                       *)
(***************************************************************************)
C2_SettlesOnce ==
    [][\A c \in CallIds :
          /\ race'[c].settles <= 1
          /\ race[c].settles = 1 => race'[c] = race[c]
          /\ pc[c] = "body" => pc'[c] \in {"body", "done"}
          /\ pc[c] = "done" => pc'[c] = "done" /\ outcome'[c] = outcome[c]
          /\ race[c].by = "driver" =>
                /\ ~state'[c].timeout
                /\ state'[c].timeoutHandle = "cleared"
          /\ (pc'[c] = "done" /\ outcome'[c].hasResp) =>
                outcome'[c].resp.response = race'[c].value
          /\ (pc'[c] = "done" /\ race'[c].by = "timer") =>
                outcome'[c].resp.response.kind = "timeout"
      ]_vars

\* The timer settled the call and a response arrived afterwards.
C2_Witness ==
    \E c \in CallIds :
        /\ TimedOut(c)
        /\ driver[c].status = "returned"
        /\ driver[c].late = 1
        /\ driver[c].response.kind = "http"
        /\ outcome[c].resp.response.kind = "timeout"

(***************************************************************************)
(* C3: with retries N >= 1, if the transport fails k < N times and then    *)
(* answers, and the deadline has not fired, fetchRetry has made exactly    *)
(* k+1 attempts and the outcome is built from that response.               *)
(***************************************************************************)
C3_RetryThenSuccess ==
    \A c \in CallIds :
        /\ (driver[c].status = "attempting" /\ ~state[c].timeout) =>
                /\ driver[c].attempts = driver[c].failures + 1
                /\ driver[c].failures < RequestedAttempts(options[c])
        /\ DriverGotResponse(c) =>
                /\ driver[c].failures < RequestedAttempts(options[c])
                /\ driver[c].attempts = driver[c].failures + 1
                /\ race[c].by = "driver"
                /\ race[c].value = driver[c].response
                /\ pc[c] \in {"body", "done"}
                /\ pc[c] = "done" =>
                        /\ outcome[c].status = driver[c].response.status
                        /\ outcome[c].hasResp =>
                                outcome[c].resp.response = driver[c].response

\* Two failures, then a response on the third attempt of three.
C3_Witness ==
    \E c \in CallIds :
        /\ DriverGotResponse(c)
        /\ options[c].retries = 3
        /\ driver[c].failures = 2
        /\ driver[c].attempts = 3
        /\ pc[c] = "done"
        /\ outcome[c].kind = "return"
        /\ outcome[c].status = 200

(***************************************************************************)
(* C4: if every attempt fails and the deadline does not fire first,        *)
(* fetchRetry makes exactly `retries` attempts (1 when retries is unset    *)
(* or 0), never more, produces no response, and the outcome is an error    *)
(* envelope of status 444 with error set.                                  *)
(***************************************************************************)
C4_Exhausted ==
    \A c \in CallIds :
        /\ driver[c].attempts <= RequestedAttempts(options[c])
        /\ DriverExhausted(c) =>
                /\ driver[c].attempts = RequestedAttempts(options[c])
                /\ driver[c].failures = driver[c].attempts
                /\ race[c].by = "driver"
                /\ race[c].value.kind = "none"
                /\ pc[c] = "done"
                /\ outcome[c].status = 444
                /\ outcome[c].hasResp
                /\ outcome[c].resp.error
                /\ outcome[c].resp.response.kind = "none"
                /\ outcome[c].kind = "throw" <=> options[c].throw = "unset"

\* Three attempts asked, three made, all failed.
C4_Witness ==
    \E c \in CallIds :
        /\ DriverExhausted(c)
        /\ options[c].retries = 3
        /\ driver[c].attempts = 3
        /\ outcome[c].resp.error

(***************************************************************************)
(* C5, as stated: with retries 2 and the transport throwing on its first   *)
(* two attempts, a third attempt is made, and the call returns {ok:true}.  *)
(***************************************************************************)
C5_ThirdAttempt ==
    \A c \in CallIds :
        (options[c].retries = 2 /\ driver[c].failures = 2 /\ ~state[c].timeout) =>
            /\ driver[c].attempts = 3
            /\ pc[c] = "done" =>
                    /\ outcome[c].kind = "return"
                    /\ outcome[c].data = Obj("{ok:true}")

(***************************************************************************)
(* C5, amended: with retries 2 and the transport throwing on its first     *)
(* two attempts, fetchRetry stops after the second attempt and the call    *)
(* ends with the status-444 error envelope; it is with retries 3 that the  *)
(* third attempt is made, and when that one returns status 200 with the    *)
(* JSON body {"data":{"ok":true}} the call returns {ok:true}.              *)
(***************************************************************************)
C5_AttemptsAsRetries ==
    \A c \in CallIds :
        /\ (options[c].retries = 2 /\ driver[c].failures = 2 /\ ~state[c].timeout) =>
                /\ driver[c].attempts = 2
                /\ driver[c].status = "returned"
                /\ pc[c] = "done"
                /\ outcome[c].status = 444
                /\ outcome[c].resp.error
                /\ outcome[c].kind = "return" => outcome[c].data = Undefined
        /\ (options[c].retries = 3 /\ driver[c].failures = 2 /\ ~state[c].timeout) =>
                /\ driver[c].attempts = 3
                /\ ( /\ pc[c] = "done"
                     /\ driver[c].response = HttpResponse(200)
                     /\ received[c] = [contentType |-> JsonType, text |-> BodyOk]
                     /\ ~options[c].noparse
                     /\ ~options[c].raw ) =>
                        /\ outcome[c].kind = "return"
                        /\ outcome[c].data = Obj("{ok:true}")

C5_Witness ==
    \E c \in CallIds :
        /\ options[c].retries = 3
        /\ driver[c].failures = 2
        /\ driver[c].attempts = 3
        /\ pc[c] = "done"
        /\ received[c] = [contentType |-> JsonType, text |-> BodyOk]
        /\ outcome[c].kind = "return"
        /\ outcome[c].data = Obj("{ok:true}")

(***************************************************************************)
(* C6: with default options (throw not false), every call whose final      *)
(* status is not 200 ends by throwing a NetError.                          *)
(***************************************************************************)
C6_NonOkThrows ==
    \A c \in CallIds :
        (pc[c] = "done" /\ options[c].throw = "unset" /\ outcome[c].status # 200) =>
            /\ outcome[c].kind = "throw"
            /\ outcome[c].error = "NetError"

(***************************************************************************)
(* C7: a call whose envelope has error set returns the envelope (raw) or   *)
(* its data and never throws when throw is false; otherwise it throws a    *)
(* NetError whose message equals the message of the envelope it carries.   *)
(***************************************************************************)
C7_ThrowOption ==
    \A c \in CallIds :
        (pc[c] = "done" /\ outcome[c].hasResp /\ outcome[c].resp.error) =>
            /\ options[c].throw = "false" =>
                    /\ outcome[c].kind = "return"
                    /\ outcome[c].returns = IF options[c].raw THEN "envelope" ELSE "data"
                    /\ ~options[c].raw => outcome[c].data = outcome[c].resp.data
            /\ options[c].throw # "false" =>
                    /\ outcome[c].kind = "throw"
                    /\ outcome[c].error = "NetError"
                    /\ outcome[c].message = outcome[c].resp.message

(***************************************************************************)
(* C8: a call whose response status is 401 fires exactly one logout        *)
(* notification, none when nologout is true, and the status check does     *)
(* not set the error flag of its envelope.                                 *)
(***************************************************************************)
C8_Logout ==
    \A c \in CallIds :
        (pc[c] = "done" /\ race[c].by = "driver" /\ race[c].value.status = 401) =>
            /\ Cardinality(Fired(c, "logout")) = IF options[c].nologout THEN 0 ELSE 1
            /\ outcome[c].resp.error => JSONparse(received[c].text).value.error

(***************************************************************************)
(* C9: a call made with feedback false never emits a feedback              *)
(* notification, whatever the status, timeout or transport failure.        *)
(***************************************************************************)
C9_NoFeedback ==
    \A c \in CallIds :
        options[c].feedback = "false" => Fired(c, "feedback") = {}

\* A failing call with feedback:false has finished.
C9_Witness ==
    \E c \in CallIds :
        /\ pc[c] = "done"
        /\ options[c].feedback = "false"
        /\ outcome[c].hasResp
        /\ outcome[c].resp.error
        /\ outcome[c].status = 500

(***************************************************************************)
(* C10: the notifications of one call fire in the order clear, start,      *)
(* logout, feedback, stop, each at most once, also when the notifications  *)
(* of another call are interleaved with them.                              *)
(***************************************************************************)
Rank(reason) ==
    CASE reason = "clear" -> 1
      [] reason = "start" -> 2
      [] reason = "logout" -> 3
      [] reason = "feedback" -> 4
      [] reason = "stop" -> 5
      [] OTHER -> 6

C10_Order ==
    \A i, j \in 1..Len(notifications) :
        ( /\ i < j
          /\ notifications[i][1] = notifications[j][1]
          /\ Rank(notifications[i][2]) <= 5
          /\ Rank(notifications[j][2]) <= 5 ) =>
            Rank(notifications[i][2]) < Rank(notifications[j][2])

\* Call 2 ran from start to stop between the start and the end of call 1,
\* and call 1 fired all five.
C10_Witness ==
    /\ \A reason \in {"clear", "start", "logout", "feedback", "stop"} :
            Fired(1, reason) # {}
    /\ \E i, j, k \in 1..Len(notifications) :
            /\ i < j /\ j < k
            /\ notifications[i] = <<1, "start">>
            /\ notifications[j] = <<2, "stop">>
            /\ notifications[k] = <<1, "logout">>

(***************************************************************************)
(* C11, as stated: a status-200 response with a JSON body makes fetch      *)
(* return the parsed JSON body, and neither feedback nor logout fires.     *)
(***************************************************************************)
GotJson(c) ==
    /\ pc[c] = "done"
    /\ race[c].by = "driver"
    /\ race[c].value.status = 200
    /\ IsJsonType(received[c].contentType)
    /\ ~options[c].noparse
    /\ JSONparse(received[c].text).ok

C12_OptionsUntouched ==
    \A c \in CallIds :
        pc[c] # "idle" => caller[c].after = caller[c].before

(***************************************************************************)
(* C13: a notify callback that throws, at any lifecycle point, changes     *)
(* nothing of the call: the notifications fired and the value returned or  *)
(* error thrown are those of the same call with a notify that succeeds.    *)
(***************************************************************************)

\* The reasons call c notified, in order.
Notified(c) ==
    LET at == SelectSeq([i \in 1..Len(notifications) |-> i],
                        LAMBDA i : notifications[i][1] = c)
    IN  [k \in 1..Len(at) |-> notifications[at[k]][2]]

C13_NotifyFailureIgnored ==
    \A c \in CallIds :
        pc[c] = "done" =>
            LET quiet == ParseResponse(options[c], race[c].value, received[c])
            IN  IF race[c].value.kind = "http" /\ outcome[c].error = "ReadError"
                THEN Notified(c) = Opening(options[c])
                ELSE /\ race[c].settles = 1
                     /\ outcome[c] = quiet.outcome
                     /\ Notified(c) = Opening(options[c]) \o quiet.notes

\* notify threw on every one of at least four notifications of a call that
\* ended by throwing its NetError.
C13_Witness ==
    \E c \in CallIds :
        /\ pc[c] = "done"
        /\ notifier[c] = Reasons
        /\ Len(Notified(c)) >= 4
        /\ outcome[c].error = "NetError"

(***************************************************************************)
(* C14: on every exit path of fetch the deadline timer has been cancelled  *)
(* by the time the call settles: once fetch is past the race no timer      *)
(* callback is pending, and once the retry driver has settled the race     *)
(* the deadline-fired flag is never set.                                   *)
(***************************************************************************)
C14_TimerCancelled ==
    \A c \in CallIds :
        /\ (pc[c] \in {"body", "done"} /\ race[c].settles > 0) =>
                state[c].timeoutHandle \in {"cleared", "fired"}
        /\ race[c].by = "driver" =>
                /\ state[c].timeoutHandle = "cleared"
                /\ ~state[c].timeout
        /\ race[c].by = "timer" =>
                /\ state[c].timeoutHandle = "fired"
                /\ state[c].timeout

\* parseResponse threw after the retry driver had won the race, and the
\* timer is cancelled.
C14_Witness ==
    \E c \in CallIds :
        /\ pc[c] = "done"
        /\ race[c].by = "driver"
        /\ outcome[c].kind = "throw"
        /\ outcome[c].error \in {"TypeError", "ReadError"}
        /\ state[c].timeoutHandle = "cleared"

(***************************************************************************)
(* C15: once the transport has returned a response, of any status,         *)
(* fetchRetry makes no further attempt, whatever retries remain: a new     *)
(* attempt only follows an attempt that failed.                            *)
(***************************************************************************)
C15_NoRetryAfterResponse ==
    [][\A c \in CallIds :
          /\ driver[c].response.kind = "http" => driver'[c] = driver[c]
          /\ driver'[c].response.kind = "http" =>
                /\ driver'[c].status = "returned"
                /\ driver'[c].attempts = driver'[c].failures + 1
          /\ (pc[c] # "idle" /\ driver'[c].attempts > driver[c].attempts) =>
                /\ driver'[c].failures = driver[c].failures + 1
                /\ driver'[c].response.kind = "none"
      ]_vars

\* A status-500 answer to the first attempt of three ended the driver.
C15_Witness ==
    \E c \in CallIds :
        /\ options[c].retries = 3
        /\ driver[c].status = "returned"
        /\ driver[c].response = HttpResponse(500)
        /\ driver[c].attempts = 1
        /\ driver[c].retries = 3
        /\ pc[c] = "done"

(***************************************************************************)
(* C16, as stated: the envelope has error true if and only if the status   *)
(* is neither 200 nor 401 (no response counting as 444); a status-200 or   *)
(* status-401 response never gives error true, whatever its body.          *)
(***************************************************************************)
C16_ErrorIffStatus ==
    \A c \in CallIds :
        (pc[c] = "done" /\ outcome[c].hasResp) =>
            (outcome[c].resp.error <=> outcome[c].status \notin {200, 401})

(***************************************************************************)
(* C16, amended: the envelope has error true if and only if the status is  *)
(* neither 200 nor 401 (no response counting as 444), or the response      *)
(* body was decoded as JSON and carries error true itself.                 *)
(***************************************************************************)
BodySaysError(c) ==
    /\ race[c].value.kind = "http"
    /\ received[c].text # ""
    /\ IsJsonType(received[c].contentType)
    /\ ~options[c].noparse
    /\ received[c].text \in {BodyError, BodyDenied, BodyFeedback}

C16_ErrorIffStatusOrBody ==
    \A c \in CallIds :
        (pc[c] = "done" /\ outcome[c].hasResp) =>
            /\ outcome[c].resp.error <=>
                    (outcome[c].status \notin {200, 401} \/ BodySaysError(c))
            /\ outcome[c].status =
                    IF race[c].value.kind = "none" THEN 444 ELSE race[c].value.status

\* A status-401 answer without an error of its own: error is not set.
C16_Witness ==
    \E c \in CallIds :
        /\ pc[c] = "done"
        /\ outcome[c].hasResp
        /\ outcome[c].status = 401
        /\ received[c].text = BodyOk
        /\ ~outcome[c].resp.error

(***************************************************************************)
(* C17: with progress set, a call that emitted start emits exactly one     *)
(* stop after it and before it settles, on every path: timeout, transport  *)
(* failure, thrown error, failure while reading the response body.         *)
(***************************************************************************)
C17_StartThenStop ==
    \A c \in CallIds :
        (pc[c] = "done" /\ Fired(c, "start") # {}) =>
            /\ Cardinality(Fired(c, "stop")) = 1
            /\ \A i \in Fired(c, "start"), j \in Fired(c, "stop") : i < j

(***************************************************************************)
(* C18: once the deadline-fired flag of a call is set, fetchRetry starts   *)
(* no new attempt: an attempt failing after that makes it return with no   *)
(* result even with retries left; the flag is written at most once, and    *)
(* only by the deadline timer.                                             *)
(***************************************************************************)
C18_NoAttemptAfterDeadline ==
    [][\A c \in CallIds :
          /\ state[c].timeout =>
                /\ state'[c].timeout
                /\ state'[c] = state[c]
                /\ driver'[c].attempts = driver[c].attempts
                /\ driver'[c] # driver[c] =>
                        /\ driver'[c].status = "returned"
                        /\ driver'[c].retries = driver[c].retries
                /\ driver'[c].failures > driver[c].failures =>
                        driver'[c].response.kind = "none"
          /\ (~state[c].timeout /\ state'[c].timeout) =>
                /\ state[c].timeoutHandle = "pending"
                /\ state'[c].timeoutHandle = "fired"
                /\ driver'[c] = driver[c]
      ]_vars

\* The timer fired during the first attempt of three; the attempt then
\* failed and fetchRetry returned with its retries unused.
C18_Witness ==
    \E c \in CallIds :
        /\ options[c].retries = 3
        /\ state[c].timeout
        /\ driver[c].status = "returned"
        /\ driver[c].failures = 1
        /\ driver[c].attempts = 1
        /\ driver[c].retries = 3
        /\ driver[c].response.kind = "none"

(***************************************************************************)
(* C19: when the content type begins with application/json, noparse is     *)
(* unset and the body is not valid JSON, parseResponse does not throw for  *)
(* the decode failure: data is left unset, and at status 200 the call      *)
(* returns normally with no error and no feedback notification.            *)
(***************************************************************************)
\* The body of call c was read, had a JSON content type, was to be parsed,
\* and is not valid JSON.
InvalidJson(c) ==
    /\ pc[c] = "done"
    /\ race[c].by = "driver"
    /\ race[c].value.kind = "http"
    /\ outcome[c].error # "ReadError"
    /\ IsJsonType(received[c].contentType)
    /\ ~options[c].noparse
    /\ ~JSONparse(received[c].text).ok

C19_DataUnset ==
    \A c \in CallIds :
        InvalidJson(c) =>
            /\ outcome[c].error # "TypeError"
            /\ outcome[c].hasResp
            /\ outcome[c].resp.data = Undefined
            /\ race[c].value.status = 200 =>
                    /\ outcome[c].kind = "return"
                    /\ ~outcome[c].resp.error
                    /\ Fired(c, "feedback") = {}

\* C19 as the code has it: a non-empty body that is not valid JSON leaves
\* data unset; the empty body is not given to JSON.parse at all and becomes
\* the data, as the empty string.  Neither throws, and at status 200 both
\* return normally with no error and no feedback notification.
C19_DecodeFailureDegrades ==
    \A c \in CallIds :
        InvalidJson(c) =>
            /\ outcome[c].error # "TypeError"
            /\ outcome[c].hasResp
            /\ outcome[c].resp.data =
                    IF received[c].text = "" THEN Str("") ELSE Undefined
            /\ race[c].value.status = 200 =>
                    /\ outcome[c].kind = "return"
                    /\ ~outcome[c].resp.error
                    /\ Fired(c, "feedback") = {}
                    /\ outcome[c].returns = "data" =>
                            outcome[c].data = outcome[c].resp.data

\* A truncated JSON body at status 200: the call returned undefined.
C19_Witness ==
    \E c \in CallIds :
        /\ InvalidJson(c)
        /\ received[c].text = BodyTruncated
        /\ race[c].value.status = 200
        /\ outcome[c].kind = "return"
        /\ outcome[c].returns = "data"
        /\ outcome[c].data = Undefined

(***************************************************************************)
(* The calls under the one fairness assumption the program's environment   *)
(* gives: a deadline timer that stays set eventually fires (setTimeout).   *)
(* Nothing obliges the transport or the body read to complete.             *)
(***************************************************************************)
SpecFair == Init /\ [][Next]_vars /\ \A c \in CallIds : WF_vars(TimerFire(c))

(***************************************************************************)
(* C20: every call to fetch eventually settles with one outcome, assuming  *)
(* only that an uncancelled deadline timer eventually fires, even if the   *)
(* transport never completes an attempt and even if reading the response   *)
(* body never completes.                                                   *)
(***************************************************************************)
C20_EventuallySettles ==
    \A c \in CallIds : (pc[c] # "idle") ~> (pc[c] = "done")

====
